---- MODULE Spec2Model ----
(***************************************************************************)
(* The three interface components of the assistant frontend as one state   *)
(* machine:                                                                *)
(*   "voice"   - AgentAudio, voice only   (components/agent.tsx 61-241)    *)
(*   "unified" - AgentAudio, voice + text (components/agent.tsx 308-573)   *)
(*   "text"    - AgentImproved            (components/only-for-test.tsx)   *)
(* comp is fixed by Init; every action is one event handler, one           *)
(* resumption of an async function after an await, or one browser          *)
(* callback.  The browser (permission query, getUserMedia, MediaRecorder   *)
(* events) and the backend (the response) are the nondeterministic inputs. *)
(***************************************************************************)
EXTENDS Integers, Sequences, FiniteSets, TLC

\* ------------------------------------------------------------------ bounds
\* startRecording invocations per run
MaxStarts == 2
\* requests issued per run
MaxSends == 2

\* ------------------------------------------------------------- vocabulary
Components == {"voice", "unified", "text"}
Starts == 1..MaxStarts
Sends == 1..MaxSends

NoUrl == 0
NoToast == ""
NoRecorder == 0

\* what navigator.permissions.query can make queryMicPermission return
PermissionStates == {"granted", "prompt", "denied", "unsupported"}
\* getUserMedia resolving and the recorder being built, or one of them throwing
StartOutcomes == {"ok", "gumRejects", "recorderThrows"}
\* err.message of a thrown error ("" makes the handler use its fallback text)
ErrMessages == {"", "NotAllowedError"}
\* e.data.size of the one dataavailable event a recorder fires when it stops
ChunkSizes == {0, 1}

\* what the user can have typed
TextInputs == {"", " ", "q"}
Trim(s) == IF s = " " THEN "" ELSE s

VARIABLES
  comp,              \* which component is mounted
  secure,            \* isSecureContextOrLocal()
  hasGetUserMedia,   \* navigator.mediaDevices?.getUserMedia is defined
  mode,              \* useState<Mode>
  markdown,          \* useState markdown
  audioUrl,          \* useState audioUrl (NoUrl is "")
  isLoading,         \* useState isLoading
  isRecording,       \* useState isRecording
  textQuery,         \* useState textQuery (unified) / input (text)
  mediaRecorderRef,  \* mediaRecorderRef.current (a start id, NoRecorder is null)
  chunksRef,         \* chunksRef.current
  pc,                \* per startRecording invocation: where it and its recorder are
  tracks,            \* per invocation: the stream's tracks, "none" | "live" | "stopped"
  capUrl,            \* per invocation: audioUrl of the render whose closure it holds
  requests,          \* the fetches in flight
  nSent,             \* fetches issued so far
  live,              \* object URLs created and not revoked
  nUrls,             \* object URLs created so far
  toast,             \* the toast the last step raised (NoToast: it raised none)
  plain,             \* the bytes of the audio the backend encodes
  base64,            \* the string base64ToBlob is called with, as its characters
  blobBytes,         \* what base64ToBlob returned: the bytes of the Blob, or that it threw
  codecPc            \* "off" | "drawn" | "encoded" | "decoded"

vars == << comp, secure, hasGetUserMedia, mode, markdown, audioUrl, isLoading,
           isRecording, textQuery, mediaRecorderRef, chunksRef, pc, tracks,
           capUrl, requests, nSent, live, nUrls, toast,
           plain, base64, blobBytes, codecPc >>

codecVars == << plain, base64, blobBytes, codecPc >>

captureVars == << mediaRecorderRef, chunksRef, pc, tracks, capUrl, isRecording >>
resultVars == << markdown, audioUrl, live, nUrls >>
envVars == << comp, secure, hasGetUserMedia >>

\* ---------------------------------------------------------------- helpers
\* const isSecureContextOrLocal = () => window.isSecureContext || [...].includes(hostname)
isSecureContextOrLocal == secure

\* new Blob(parts).size
RECURSIVE BlobSize(_)
BlobSize(parts) ==
  IF parts = << >> THEN 0 ELSE Head(parts).size + BlobSize(Tail(parts))

\* the invocation a new click on the mic creates
NextStart == Cardinality({i \in Starts : pc[i] # "idle"}) + 1

\* the toasts
InsecureMsg == "Insecure context."
UnsupportedMsg ==
  IF comp = "voice" THEN "getUserMedia not supported."
  ELSE "getUserMedia not supported in this browser."
DeniedMsg ==
  IF comp = "voice" THEN "Mic permission denied." ELSE "Microphone permission denied."
EmptyRecordingMsg ==
  IF comp = "voice" THEN "Recording empty." ELSE "Empty recording, try again."
StartFailedMsg(m) ==
  IF m # "" THEN m
  ELSE IF comp = "voice" THEN "Recording failed." ELSE "Cannot start recording."
MountWarning ==
  IF comp = "voice" THEN "Microphone access requires HTTPS or localhost."
  ELSE "Microphone requires HTTPS or localhost."

\* -------------------------------------------------------------------- Init
\* The state after the component has mounted: the useState/useRef initial
\* values, and the mount effect's warning toast in an insecure context.
\* navigator.mediaDevices is exposed to secure contexts only, so an insecure
\* context has no getUserMedia.
Mounted ==
  /\ comp \in Components
  /\ secure \in BOOLEAN
  /\ hasGetUserMedia \in (IF secure THEN BOOLEAN ELSE {FALSE})
  /\ mode = "voice"
  /\ markdown = ""
  /\ audioUrl = NoUrl
  /\ isLoading = FALSE
  /\ isRecording = FALSE
  /\ textQuery = IF comp = "text" THEN "q" ELSE ""
  /\ mediaRecorderRef = NoRecorder
  /\ chunksRef = << >>
  /\ pc = [i \in Starts |-> "idle"]
  /\ tracks = [i \in Starts |-> "none"]
  /\ capUrl = [i \in Starts |-> NoUrl]
  /\ requests = {}
  /\ nSent = 0
  /\ live = {}
  /\ nUrls = 0
  /\ toast = IF comp # "text" /\ ~isSecureContextOrLocal THEN MountWarning ELSE NoToast

\* base64ToBlob has not been called
NoBlob == [ok |-> TRUE, bytes |-> << >>]

Init ==
  /\ Mounted
  /\ plain = << >>
  /\ base64 = << >>
  /\ blobBytes = NoBlob
  /\ codecPc = "off"

\* ------------------------------------------------------- the mic button
\* <Button onClick={isRecording ? stopRecording : startRecording} disabled={isLoading}>,
\* rendered by the unified component in voice mode only.
MicButtonEnabled ==
  /\ comp \in {"voice", "unified"}
  /\ comp = "unified" => mode = "voice"
  /\ ~isLoading

\* The audioUrl the sendAudio of this render closes over.  Only the voice-only
\* sendAudio reads it (audioUrl && URL.revokeObjectURL(audioUrl)).
ClosureAudioUrl(i) ==
  IF comp = "voice" THEN [capUrl EXCEPT ![i] = audioUrl] ELSE capUrl

\* startRecording up to its first await.  Only the voice-only component tests
\* isSecureContextOrLocal() here.
StartRecording(i) ==
  IF comp = "voice" /\ ~isSecureContextOrLocal
    THEN /\ toast' = InsecureMsg
         /\ pc' = [pc EXCEPT ![i] = "failed"]
         /\ UNCHANGED capUrl
    ELSE IF ~hasGetUserMedia
    THEN /\ toast' = UnsupportedMsg
         /\ pc' = [pc EXCEPT ![i] = "failed"]
         /\ UNCHANGED capUrl
    ELSE /\ pc' = [pc EXCEPT ![i] = "perm"]
         /\ capUrl' = ClosureAudioUrl(i)
         /\ toast' = NoToast

ClickMicStart ==
  /\ MicButtonEnabled
  /\ ~isRecording
  /\ NextStart \in Starts
  /\ StartRecording(NextStart)
  /\ UNCHANGED << envVars, codecVars, mode, textQuery, isLoading, isRecording, mediaRecorderRef,
                  chunksRef, tracks, requests, nSent, resultVars >>

\* await queryMicPermission() returns
PermissionResolved(i, micState) ==
  /\ pc[i] = "perm"
  /\ IF micState = "denied"
       THEN /\ toast' = DeniedMsg
            /\ pc' = [pc EXCEPT ![i] = "failed"]
       ELSE /\ pc' = [pc EXCEPT ![i] = "gum"]
            /\ toast' = NoToast
  /\ UNCHANGED << envVars, codecVars, mode, textQuery, isLoading, isRecording, mediaRecorderRef,
                  chunksRef, tracks, capUrl, requests, nSent, resultVars >>

\* await getUserMedia() returns or throws, and the rest of the try block runs
UserMediaResolved(i, outcome, msg) ==
  /\ pc[i] = "gum"
  /\ IF outcome = "ok"
       THEN /\ tracks' = [tracks EXCEPT ![i] = "live"]
            /\ mediaRecorderRef' = i
            /\ chunksRef' = << >>
            /\ pc' = [pc EXCEPT ![i] = "recording"]
            /\ isRecording' = TRUE
            /\ toast' = "Recording"
       ELSE /\ tracks' = [tracks EXCEPT ![i] =
                            IF outcome = "recorderThrows" THEN "live" ELSE "none"]
            /\ pc' = [pc EXCEPT ![i] = "failed"]
            /\ toast' = StartFailedMsg(msg)
            /\ UNCHANGED << mediaRecorderRef, chunksRef, isRecording >>
  /\ UNCHANGED << envVars, codecVars, mode, textQuery, isLoading, capUrl, requests, nSent,
                  resultVars >>

\* stopRecording: mediaRecorderRef.current?.stop(); setRecording(false).
\* stop() on a recorder that is not recording does nothing.
StopRecording ==
  /\ pc' = IF mediaRecorderRef # NoRecorder /\ pc[mediaRecorderRef] = "recording"
             THEN [pc EXCEPT ![mediaRecorderRef] = "stopping"]
             ELSE pc
  /\ isRecording' = FALSE

ClickMicStop ==
  /\ MicButtonEnabled
  /\ isRecording
  /\ StopRecording
  /\ UNCHANGED << envVars, codecVars, mode, textQuery, isLoading, mediaRecorderRef, chunksRef,
                  tracks, capUrl, requests, nSent, resultVars >>
  /\ toast' = NoToast

\* recorder.ondataavailable = (e) => { if (e.data.size) chunksRef.current.push(e.data) }:
\* chunksRef.current after the event
OnDataAvailable(i, size) ==
  IF size # 0 THEN Append(chunksRef, [rec |-> i, size |-> size]) ELSE chunksRef

\* recorder.onstop is defined with the exchange, which it calls

\* ---------------------------------------------------------- the backend
\* The fields of a JSON reply the code reads, in the order the backend writes them.
FieldOrder == << "text", "result", "output", "message", "audio_b64", "error" >>
Fields == {FieldOrder[k] : k \in 1..Len(FieldOrder)}
\* text differs from reply to reply; the other fields have one value each,
\* all different, so that the field a text came from can be told
FieldValues(f) ==
  CASE f = "text" -> {"A", "B"}
    [] f = "result" -> {"R"}
    [] f = "output" -> {"O"}
    [] f = "message" -> {"M"}
    \* one base64 string atob accepts, one it throws on
    [] f = "audio_b64" -> {"QUJD", "!"}
    [] f = "error" -> {"bad request"}
AllValues == UNION {FieldValues(f) : f \in Fields}

\* The sets of fields a reply carries: the voice reply of the component's
\* header comment with each of its parts left out, the text replies of the
\* README, and an error reply.
FieldSets ==
  { {}, {"text"}, {"audio_b64"}, {"text", "audio_b64"},
    {"result"}, {"output"}, {"message"}, {"result", "output"}, {"output", "message"},
    {"error"} }

\* A parsed JSON object: a function from the fields present to their values.
Bodies ==
  UNION {{b \in [S -> AllValues] : \A f \in S : b[f] \in FieldValues(f)} : S \in FieldSets}
EmptyBody == [f \in {} |-> ""]

\* status and statusText of a response
StatusLines == {<< 200, "OK" >>, << 400, "Bad Request" >>, << 400, "" >>}
\* bodies JSON.parse throws on
RawTexts == {"", "# md"}

\* What fetch can settle with: a rejection (net = FALSE), or a response with a
\* status line, a content-type that names JSON or not, and a body that is
\* either the text of a JSON object (parsable) or some other text (raw).
NetworkFailure ==
  [net |-> FALSE, status |-> 0, statusText |-> "", ctJson |-> FALSE,
   parsable |-> FALSE, body |-> EmptyBody, raw |-> ""]
Responses ==
  {NetworkFailure}
  \cup {[net |-> TRUE, status |-> l[1], statusText |-> l[2], ctJson |-> c,
         parsable |-> TRUE, body |-> b, raw |-> ""] :
          l \in StatusLines, c \in BOOLEAN, b \in Bodies}
  \cup {[net |-> TRUE, status |-> l[1], statusText |-> l[2], ctJson |-> c,
         parsable |-> FALSE, body |-> EmptyBody, raw |-> t] :
          l \in StatusLines, c \in BOOLEAN, t \in RawTexts}

\* res.ok
ResOk(resp) == resp.status >= 200 /\ resp.status <= 299

\* the message of the error fetch or res.json() throws
FetchErrorMsg == "Failed to fetch"
JsonErrorMsg == "Unexpected token"
AtobErrorMsg == "InvalidCharacterError"

Has(b, f) == f \in DOMAIN b
\* if (data.f): present and not the empty string
Truthy(b, f) == Has(b, f) /\ b[f] # ""
\* atob(dataPart) throws
AtobThrows(s) == s = "!"

\* JSON.stringify(data, null, 2)
RECURSIVE PrettyMembers(_, _, _)
PrettyMembers(b, k, first) ==
  IF k > Len(FieldOrder) THEN ""
  ELSE IF Has(b, FieldOrder[k])
    THEN (IF first THEN "\n  " ELSE ",\n  ")
           \o "\"" \o FieldOrder[k] \o "\": \"" \o b[FieldOrder[k]] \o "\""
           \o PrettyMembers(b, k + 1, FALSE)
    ELSE PrettyMembers(b, k + 1, first)
Stringify(b) ==
  IF DOMAIN b = {} THEN "{}" ELSE "{" \o PrettyMembers(b, 1, TRUE) \o "\n}"

\* await res.text(): the body as sent
ResText(resp) == IF resp.parsable THEN Stringify(resp.body) ELSE resp.raw

\* data.result ?? data.output ?? data.message ?? JSON.stringify(data, null, 2)
ResolveText(b) ==
  IF Has(b, "result") THEN b["result"]
  ELSE IF Has(b, "output") THEN b["output"]
  ELSE IF Has(b, "message") THEN b["message"]
  ELSE Stringify(b)

\* ------------------------------------------------------------ the exchange
\* a || b on strings
OrElse(a, b) == IF a # "" THEN a ELSE b

\* URL.createObjectURL(blob): a URL never handed out before
NewUrl == nUrls + 1

\* const BACKEND_URL = "http://127.0.0.1:8080/assistant"
BACKEND_URL == "http://127.0.0.1:8080/assistant"

\* JSON.stringify({ query: q }) with one more top-level field
QueryBody_WithMode(q) == [f \in {"query", "mode"} |-> q]

\* JSON.stringify({ query: q }): the top-level fields of the body and their values
QueryBody(q) == [f \in {"query"} |-> q]

\* const fd = new FormData(); fd.append("audio", blob, "recording.webm"): the parts
AudioForm(blob) == << [name |-> "audio", value |-> blob, filename |-> "recording.webm"] >>

\* fetch(BACKEND_URL, { method: "POST", body: fd }) of sendAudio: the browser
\* writes the multipart content type, the code sets no header
AudioFetch(blob) ==
  [url |-> BACKEND_URL, method |-> "POST", contentType |-> "",
   json |-> EmptyBody, parts |-> AudioForm(blob)]

\* fetch(BACKEND_URL, { method: "POST", headers: { "Content-Type":
\* "application/json" }, body: JSON.stringify({ query: textQuery }) }) of sendText
TextFetch(q) ==
  [url |-> BACKEND_URL, method |-> "POST", contentType |-> "application/json",
   json |-> QueryBody(q), parts |-> << >>]

\* the fetch of fetchEvents, which writes the URL out
EventsFetch(q) ==
  [url |-> "http://127.0.0.1:8080/assistant", method |-> "POST",
   contentType |-> "application/json", json |-> QueryBody(q), parts |-> << >>]

\* A fetch in flight: the sender that issued it ("audio" is sendAudio, "text"
\* is sendText or fetchEvents), what it was called with, and md0, the
\* markdown on display when it was submitted.
NewRequest(kind, init) ==
  [id |-> nSent + 1, kind |-> kind, init |-> init, md0 |-> markdown]

\* What sendAudio releases before it clears audioUrl: the voice-only component
\* revokes the audioUrl of the render whose closure the recorder holds, the
\* unified component revokes nothing.
RevokedBySendAudio(i) ==
  IF comp = "voice" /\ capUrl[i] # NoUrl THEN {capUrl[i]} ELSE {}

\* sendAudio(blob) up to its await fetch, called by the onstop of recorder i
SendAudio(i, blob) ==
  /\ nSent < MaxSends
  /\ isLoading' = TRUE
  /\ live' = live \ RevokedBySendAudio(i)
  /\ audioUrl' = NoUrl
  /\ requests' = requests \cup {NewRequest("audio", AudioFetch(blob))}
  /\ nSent' = nSent + 1
  /\ UNCHANGED << markdown, nUrls >>

\* BlobIsEmpty without the size test: the stop handler always sends
BlobIsEmpty_NoTest(blob) == FALSE

\* if (!blob.size) return toast.error(...)
BlobIsEmpty(blob) == BlobSize(blob) = 0

\* stream.getTracks().forEach(t => t.stop()), the last statement of onstop
TracksAfterOnStop(i, sent) ==
  IF sent THEN [tracks EXCEPT ![i] = "stopped"] ELSE tracks

\* recorder.onstop, over the chunks in chunksRef.current
OnStop(i, chunks) ==
  LET blob == chunks IN
    IF BlobIsEmpty(blob)
      THEN /\ toast' = EmptyRecordingMsg
           /\ tracks' = TracksAfterOnStop(i, FALSE)
           /\ UNCHANGED << isLoading, requests, nSent, resultVars >>
      ELSE /\ SendAudio(i, blob)
           /\ tracks' = TracksAfterOnStop(i, TRUE)
           /\ toast' = NoToast

\* The task a stopped recorder queues: it fires dataavailable with what was
\* recorded (there is no timeslice, so this is the recorder's one chunk) and
\* then stop, and the two handlers run one after the other.
RecorderStopped(i, size) ==
  /\ pc[i] = "stopping"
  /\ chunksRef' = OnDataAvailable(i, size)
  /\ OnStop(i, OnDataAvailable(i, size))
  /\ pc' = [pc EXCEPT ![i] = "done"]
  /\ UNCHANGED << envVars, codecVars, mode, textQuery, isRecording, mediaRecorderRef, capUrl >>

\* The markdown a reply leaves on display: if (data.text) setMarkdown(data.text)
MarkdownAfter(b) == IF Truthy(b, "text") THEN b["text"] ELSE markdown

\* What is revoked when a reply's audio becomes the audioUrl: the unified
\* component's updater revokes the URL still in the state, the voice-only
\* component revokes nothing here.
RevokedByReply ==
  IF comp = "unified" /\ audioUrl # NoUrl THEN {audioUrl} ELSE {}

\* handleBackendJson(data) (unified) / the same statements of sendAudio (voice-only)
HandleBackendJson(b) ==
  /\ markdown' = MarkdownAfter(b)
  /\ IF Truthy(b, "audio_b64")
       THEN IF AtobThrows(b["audio_b64"])
              THEN /\ toast' = AtobErrorMsg
                   /\ UNCHANGED << audioUrl, live, nUrls >>
              ELSE /\ nUrls' = NewUrl
                   /\ audioUrl' = NewUrl
                   /\ live' = (live \ RevokedByReply) \cup {NewUrl}
                   /\ toast' = IF comp = "voice" THEN "Response ready" ELSE NoToast
       ELSE /\ toast' = IF comp = "voice" THEN "Response ready" ELSE NoToast
            /\ UNCHANGED << audioUrl, live, nUrls >>

\* the exchange failed: fetch rejected, res.json() threw, or !res.ok
AgentFailed(resp) == ~resp.net \/ ~resp.parsable \/ ~ResOk(resp)
\* err.message in the catch block
AgentErrorMsg(resp) ==
  IF ~resp.net THEN FetchErrorMsg
  ELSE IF ~resp.parsable THEN JsonErrorMsg
  ELSE OrElse(IF Has(resp.body, "error") THEN resp.body["error"] ELSE "", resp.statusText)

\* sendAudio / sendText from the await fetch on: try, catch, finally
AgentReply(r, resp) ==
  /\ comp \in {"voice", "unified"}
  /\ IF AgentFailed(resp)
       THEN /\ toast' = OrElse(AgentErrorMsg(resp), "Request failed")
            /\ UNCHANGED resultVars
       ELSE HandleBackendJson(resp.body)
  /\ isLoading' = FALSE
  /\ requests' = requests \ {r}
  /\ UNCHANGED << envVars, codecVars, mode, textQuery, captureVars, nSent >>

\* sendText up to its await fetch
SendText ==
  IF Trim(textQuery) = ""
    THEN /\ toast' = "Please enter a request."
         /\ UNCHANGED << isLoading, requests, nSent, resultVars >>
    ELSE /\ nSent < MaxSends
         /\ isLoading' = TRUE
         /\ audioUrl' = NoUrl
         /\ requests' = requests \cup {NewRequest("text", TextFetch(textQuery))}
         /\ nSent' = nSent + 1
         /\ toast' = NoToast
         /\ UNCHANGED << markdown, live, nUrls >>

\* <Input onKeyDown={(e) => e.key === "Enter" && sendText()} disabled={isLoading}>
PressEnter ==
  /\ comp = "unified" /\ mode = "text" /\ ~isLoading
  /\ SendText
  /\ UNCHANGED << envVars, codecVars, mode, textQuery, captureVars >>

\* <Button onClick={sendText} disabled={isLoading || !textQuery.trim()}>
ClickSend ==
  /\ comp = "unified" /\ mode = "text" /\ ~isLoading /\ Trim(textQuery) # ""
  /\ SendText
  /\ UNCHANGED << envVars, codecVars, mode, textQuery, captureVars >>

\* the mode buttons, never disabled
SetMode(m) ==
  /\ comp = "unified"
  /\ mode # m
  /\ mode' = m
  /\ UNCHANGED << envVars, codecVars, markdown, audioUrl, isLoading, textQuery, captureVars,
                  requests, nSent, live, nUrls >>
  /\ toast' = NoToast

\* <Input onChange={...} disabled={isLoading}> of the unified and the text component
TypeText(v) ==
  /\ \/ comp = "unified" /\ mode = "text"
     \/ comp = "text"
  /\ ~isLoading
  /\ textQuery # v
  /\ textQuery' = v
  /\ UNCHANGED << envVars, codecVars, mode, markdown, audioUrl, isLoading, captureVars,
                  requests, nSent, live, nUrls >>
  /\ toast' = NoToast

\* fetchEvents up to its await fetch
FetchEvents ==
  /\ nSent < MaxSends
  /\ isLoading' = TRUE
  /\ markdown' = ""
  /\ requests' = requests \cup {NewRequest("text", EventsFetch(textQuery))}
  /\ nSent' = nSent + 1
  /\ toast' = NoToast
  /\ UNCHANGED << audioUrl, live, nUrls >>

\* handleSubmit, reached through the submit button (disabled={isLoading || !input.trim()})
HandleSubmit ==
  /\ comp = "text" /\ ~isLoading /\ Trim(textQuery) # ""
  /\ IF Trim(textQuery) = ""
       THEN /\ toast' = "Please enter a request"
            /\ UNCHANGED << isLoading, requests, nSent, resultVars >>
       ELSE FetchEvents
  /\ UNCHANGED << envVars, codecVars, mode, textQuery, captureVars >>

\* fetchEvents: the request failed before a text was resolved
EventsThrowsEarly(resp) == ~resp.net \/ (resp.ctJson /\ ~resp.parsable)
\* fetchEvents: the text resolved from the response
EventsText(resp) ==
  IF resp.ctJson THEN ResolveText(resp.body) ELSE ResText(resp)
EventsFailed(resp) == EventsThrowsEarly(resp) \/ ~ResOk(resp)
EventsErrorMsg(resp) ==
  IF ~resp.net THEN FetchErrorMsg
  ELSE IF resp.ctJson /\ ~resp.parsable THEN JsonErrorMsg
  ELSE OrElse(EventsText(resp), "HTTP " \o ToString(resp.status))

\* fetchEvents from the await fetch on: try, catch, finally
EventsReply(r, resp) ==
  /\ comp = "text"
  /\ IF EventsFailed(resp)
       THEN /\ toast' = OrElse(EventsErrorMsg(resp), "Failed to fetch events")
            /\ UNCHANGED markdown
       ELSE /\ markdown' = EventsText(resp)
            /\ toast' = "Calendar events retrieved successfully"
  /\ isLoading' = FALSE
  /\ requests' = requests \ {r}
  /\ UNCHANGED << envVars, codecVars, mode, textQuery, captureVars, nSent, audioUrl, live, nUrls >>

\* the fetch of request id settles with resp
AgentSettles(id, resp) == \E r \in requests : r.id = id /\ AgentReply(r, resp)
EventsSettles(id, resp) == \E r \in requests : r.id = id /\ EventsReply(r, resp)

\* --------------------------------------------------------------- the system
Next ==
  \/ ClickMicStart
  \/ \E i \in Starts, st \in PermissionStates : PermissionResolved(i, st)
  \/ \E i \in Starts, o \in StartOutcomes, m \in ErrMessages : UserMediaResolved(i, o, m)
  \/ ClickMicStop
  \/ \E i \in Starts, size \in ChunkSizes : RecorderStopped(i, size)
  \/ \E m \in {"voice", "text"} : SetMode(m)
  \/ \E v \in TextInputs : TypeText(v)
  \/ PressEnter
  \/ ClickSend
  \/ HandleSubmit
  \/ \E id \in Sends, resp \in Responses : AgentSettles(id, resp)
  \/ \E id \in Sends, resp \in Responses : EventsSettles(id, resp)

Spec == Init /\ [][Next]_vars

\* ------------------------------------------------------------- base64ToBlob
\* longest audio, in bytes
MaxBytes == 4
\* a low, a middle and the highest byte value
ByteValues == {0, 77, 255}
ByteSeqs == UNION {[1..n -> ByteValues] : n \in 0..MaxBytes}

\* the base64 alphabet (RFC 4648), value k at position k + 1
Alphabet ==
  << "A", "B", "C", "D", "E", "F", "G", "H", "I", "J", "K", "L", "M",
     "N", "O", "P", "Q", "R", "S", "T", "U", "V", "W", "X", "Y", "Z",
     "a", "b", "c", "d", "e", "f", "g", "h", "i", "j", "k", "l", "m",
     "n", "o", "p", "q", "r", "s", "t", "u", "v", "w", "x", "y", "z",
     "0", "1", "2", "3", "4", "5", "6", "7", "8", "9", "+", "/" >>
AlphabetChars == {Alphabet[k] : k \in 1..Len(Alphabet)}
Digit(v) == Alphabet[v + 1]
Sextet(c) == CHOOSE v \in 0..(Len(Alphabet) - 1) : Alphabet[v + 1] = c

\* The backend's base64 encoding of a byte sequence, with padding.
RECURSIVE Encode(_)
Encode(b) ==
  IF b = << >> THEN << >>
  ELSE IF Len(b) = 1
    THEN << Digit(b[1] \div 4), Digit((b[1] % 4) * 16), "=", "=" >>
  ELSE IF Len(b) = 2
    THEN << Digit(b[1] \div 4), Digit((b[1] % 4) * 16 + b[2] \div 16),
            Digit((b[2] % 16) * 4), "=" >>
  ELSE << Digit(b[1] \div 4), Digit((b[1] % 4) * 16 + b[2] \div 16),
          Digit((b[2] % 16) * 4 + b[3] \div 64), Digit(b[3] % 64) >>
         \o Encode(SubSeq(b, 4, Len(b)))

\* the media types a reply's audio comes with
Mimes ==
  { << "a", "u", "d", "i", "o", "/", "m", "p", "e", "g" >>,
    << "a", "u", "d", "i", "o", "/", "w", "e", "b", "m", ";",
       "c", "o", "d", "e", "c", "s", "=", "o", "p", "u", "s" >> }
\* "data:<mime>;base64,"
DataUriHeader(mime) ==
  << "d", "a", "t", "a", ":" >> \o mime \o << ";", "b", "a", "s", "e", "6", "4", "," >>
\* no header, or the header of one of the media types
Headers == {<< >>} \cup {DataUriHeader(m) : m \in Mimes}

\* base64.includes(c)
Includes(str, c) == \E k \in 1..Len(str) : str[k] = c

\* what is left of str after its first c
AfterFirst(str, c) ==
  SubSeq(str, (CHOOSE k \in 1..Len(str) :
                 str[k] = c /\ \A j \in 1..(k - 1) : str[j] # c) + 1, Len(str))
\* what precedes the first c of str, all of str if it has none
UpToFirst(str, c) ==
  IF Includes(str, c)
    THEN SubSeq(str, 1, (CHOOSE k \in 1..Len(str) :
                           str[k] = c /\ \A j \in 1..(k - 1) : str[j] # c) - 1)
    ELSE str
\* base64.split(",")[1], for a string that includes ",": its second piece
SecondPiece(str) == UpToFirst(AfterFirst(str, ","), ",")

\* dataPart taken to be the whole string
DataPart_NoSplit(str) == str

\* const dataPart = base64.includes(",") ? base64.split(",")[1] : base64
DataPart(str) == IF Includes(str, ",") THEN SecondPiece(str) ELSE str

\* the bytes a run of base64 digits stands for; the bits of an incomplete
\* last byte are dropped
RECURSIVE DecodeDigits(_)
DecodeDigits(d) ==
  IF Len(d) < 2 THEN << >>
  ELSE IF Len(d) = 2
    THEN << Sextet(d[1]) * 4 + Sextet(d[2]) \div 16 >>
  ELSE IF Len(d) = 3
    THEN << Sextet(d[1]) * 4 + Sextet(d[2]) \div 16,
            (Sextet(d[2]) % 16) * 16 + Sextet(d[3]) \div 4 >>
  ELSE << Sextet(d[1]) * 4 + Sextet(d[2]) \div 16,
          (Sextet(d[2]) % 16) * 16 + Sextet(d[3]) \div 4,
          (Sextet(d[3]) % 4) * 64 + Sextet(d[4]) >>
         \o DecodeDigits(SubSeq(d, 5, Len(d)))

AsciiWhitespace == {" ", "\t", "\n", "\f", "\r"}
\* str without the one or two "=" that end a string of a multiple of 4 characters
Unpadded(str) ==
  IF Len(str) % 4 = 0 /\ Len(str) > 0 /\ str[Len(str)] = "="
    THEN IF str[Len(str) - 1] = "="
           THEN SubSeq(str, 1, Len(str) - 2)
           ELSE SubSeq(str, 1, Len(str) - 1)
    ELSE str

\* atob(str): the character codes of the binary string, or ok = FALSE where
\* it throws InvalidCharacterError
Atob(str) ==
  LET digits == Unpadded(SelectSeq(str, LAMBDA c : c \notin AsciiWhitespace)) IN
    IF Len(digits) % 4 = 1 \/ \E k \in 1..Len(digits) : digits[k] \notin AlphabetChars
      THEN [ok |-> FALSE, bytes |-> << >>]
      ELSE [ok |-> TRUE, bytes |-> DecodeDigits(digits)]

\* base64ToBlob(base64, mime): the bytes of the Blob it returns
Base64ToBlob(str) ==
  LET binary == Atob(DataPart(str)) IN
    [ok |-> binary.ok,
     bytes |-> [i \in 1..Len(binary.bytes) |-> binary.bytes[i] % 256]]

\* The audio of a reply is drawn, the backend encodes it with or without a
\* data-URI header, and handleBackendJson / sendAudio hands it to base64ToBlob.
CodecInit ==
  /\ Mounted
  /\ comp \in {"voice", "unified"}
  /\ plain \in ByteSeqs
  /\ base64 = << >>
  /\ blobBytes = NoBlob
  /\ codecPc = "drawn"

appVars ==
  << comp, secure, hasGetUserMedia, mode, markdown, audioUrl, isLoading,
     isRecording, textQuery, mediaRecorderRef, chunksRef, pc, tracks,
     capUrl, requests, nSent, live, nUrls, toast >>

BackendEncodes(header) ==
  /\ codecPc = "drawn"
  /\ base64' = header \o Encode(plain)
  /\ codecPc' = "encoded"
  /\ UNCHANGED << plain, blobBytes, appVars >>

DecodeReply ==
  /\ codecPc = "encoded"
  /\ blobBytes' = Base64ToBlob(base64)
  /\ codecPc' = "decoded"
  /\ UNCHANGED << plain, base64, appVars >>

CodecNext ==
  \/ \E header \in Headers : BackendEncodes(header)
  \/ DecodeReply

CodecSpec == CodecInit /\ [][CodecNext]_vars

\* ------------------------------------------------------------------ claims
Recording == {i \in Starts : pc[i] = "recording"}

\* C1: at most one MediaRecorder is in the recording state at any time.
C1_OneRecordingAtATime == Cardinality(Recording) <= 1

\* C2: at most one exchange request is outstanding at any time.
C2_OneRequestOutstanding == Cardinality(requests) <= 1

\* C3: once a recorder's stop handler has run, the tracks of its stream are
\* stopped, whether the recording was empty or not.
C3_TracksReleasedAfterStop ==
  \A i \in Starts : pc[i] = "done" => tracks[i] = "stopped"

\* The stop handler of recorder i runs in this step.
StopHandlerRuns(i) == pc[i] = "stopping" /\ pc'[i] = "done"

C5_InsecureStartFailsAtOnce ==
  [][\A i \in Starts :
       (~isSecureContextOrLocal /\ pc[i] = "idle" /\ pc'[i] # "idle")
         => /\ pc'[i] = "failed"
            /\ toast' = InsecureMsg
            /\ ~isRecording']_vars

\* C6: at most one object URL is live (created and not revoked).
C6_AtMostOneLiveUrl == Cardinality(live) <= 1

\* C7: while a request is in flight, audioUrl is empty.
C7_AudioClearedWhilePending == requests # {} => audioUrl = NoUrl

\* C8: a failed exchange (fetch rejected, non-2xx status, or a body that does
\* not parse) leaves on display the markdown that was on display
\* when the request was submitted.
C8_FailureKeepsMarkdown ==
  [][\A r \in requests, resp \in Responses :
       (\/ AgentReply(r, resp) /\ AgentFailed(resp)
        \/ EventsReply(r, resp) /\ EventsFailed(resp))
         => markdown' = r.md0]_vars

\* the text of a voice-shaped reply, "" when it has none
ReplyText(b) == IF Has(b, "text") THEN b["text"] ELSE ""

\* C9: after a successful exchange the markdown and the audio on display are
\* those of that reply: a reply without text leaves no markdown, a reply
\* without audio leaves no audio.
C9_ReplyNotMerged ==
  [][\A r \in requests, resp \in Responses :
       (AgentReply(r, resp) /\ ~AgentFailed(resp) /\ toast' # AtobErrorMsg)
         => /\ markdown' = ReplyText(resp.body)
            /\ ~Has(resp.body, "audio_b64") => audioUrl' = NoUrl]_vars

\* the first present field in the order result, output, message, else the dump
FirstPresent(b) ==
  IF "result" \in DOMAIN b THEN b["result"]
  ELSE IF "output" \in DOMAIN b THEN b["output"]
  ELSE IF "message" \in DOMAIN b THEN b["message"]
  ELSE Stringify(b)

\* a 2xx response with a JSON content type and a JSON object as body
JsonSuccess(resp) == resp.net /\ ResOk(resp) /\ resp.ctJson /\ resp.parsable

\* C10: a JSON reply to a text query (fetchEvents or sendText) puts on display
\* the first present field in the order result, output, message, or the dump.
C10_FieldPriorityOnTextPath ==
  [][\A r \in requests, resp \in Responses :
       (r.kind = "text" /\ JsonSuccess(resp)
          /\ (AgentReply(r, resp) \/ EventsReply(r, resp)))
         => markdown' = FirstPresent(resp.body)]_vars

\* a 2xx response whose content type does not name JSON
NonJsonSuccess(resp) == resp.net /\ ResOk(resp) /\ ~resp.ctJson

\* C11: a 2xx response whose declared content type is not JSON succeeds, and
\* puts its body on display verbatim, in every sender (sendAudio, sendText,
\* fetchEvents).
C11_NonJsonSuccessIsMarkdown ==
  [][\A r \in requests, resp \in Responses :
       (NonJsonSuccess(resp) /\ (AgentReply(r, resp) \/ EventsReply(r, resp)))
         => markdown' = ResText(resp)]_vars

\* the message the claim gives a non-2xx response: the body's error field,
\* else the status text, else the body as text
ExpectedErrorMsg(resp) ==
  IF resp.parsable /\ Truthy(resp.body, "error") THEN resp.body["error"]
  ELSE IF resp.statusText # "" THEN resp.statusText
  ELSE ResText(resp)

\* C12: a non-2xx response raises an error toast whose message is the JSON
\* body's error field when present, otherwise the status text, otherwise the
\* body as text, in every sender, and the markdown is left as it was.
C12_NonOkSurfacesErrorField ==
  [][\A r \in requests, resp \in Responses :
       (resp.net /\ ~ResOk(resp) /\ (AgentReply(r, resp) \/ EventsReply(r, resp)))
         => /\ toast' = ExpectedErrorMsg(resp)
            /\ markdown' = markdown]_vars

\* the chunks of a buffer that recorder i delivered
OwnChunks(i, chunks) == SelectSeq(chunks, LAMBDA c : c.rec = i)

\* C13: the buffer the stop handler of recorder i hands to sendAudio is the
\* sequence of the non-empty chunks recorder i delivered: it holds no chunk of
\* another recorder.
C13_BufferHoldsOwnChunksOnly ==
  [][\A i \in Starts :
       StopHandlerRuns(i)
         => \A r \in requests' \ requests :
              r.init.parts[1].value = OwnChunks(i, chunksRef')]_vars

\* C14: every request is a POST to BACKEND_URL; the request of a text
\* submission has a JSON content type and a JSON body whose only top-level
\* field is query, equal to the text entered, and no form part; the request
\* of a voice submission is a form with exactly one part, named audio, and no
\* JSON body.
C14_OneQueryVariantPerRequest ==
  [][\A r \in requests' \ requests :
       /\ r.init.method = "POST"
       /\ r.init.url = BACKEND_URL
       /\ r.kind = "text"
            => /\ r.init.contentType = "application/json"
               /\ DOMAIN r.init.json = {"query"}
               /\ r.init.json["query"] = textQuery
               /\ r.init.parts = << >>
       /\ r.kind = "audio"
            => /\ Len(r.init.parts) = 1
               /\ r.init.parts[1].name = "audio"
               /\ DOMAIN r.init.json = {}]_vars

\* A text request and a voice request have both been issued.
C14_Witness ==
  \E r1, r2 \in requests :
    /\ r1.kind = "text" /\ r1.init.json["query"] = "q"
    /\ r2.kind = "audio" /\ r2.init.parts[1].value # << >>

\* C15: base64ToBlob returns the bytes that were encoded, whether the encoded
\* string comes bare or behind a data-URI header.
C15_DecodeInvertsEncode ==
  codecPc = "decoded" => (blobBytes.ok /\ blobBytes.bytes = plain)

\* A padded encoding behind a data-URI header has been decoded.
C15_Witness ==
  /\ codecPc = "decoded"
  /\ Len(plain) = 2
  /\ Includes(base64, ",")
  /\ base64[Len(base64)] = "="
  /\ blobBytes.bytes = plain

\* startRecording invocation i fails in this step
StartFails(i) == pc[i] # "failed" /\ pc'[i] = "failed"
\* a recorder is started in this step
RecorderStarts == \E i \in Starts : pc[i] # "recording" /\ pc'[i] = "recording"

\* C16: isRecording becomes true only in a step that starts a recorder; a
\* failed start leaves isRecording false and no recorder recording; and
\* whenever isRecording is false, no recorder is in the recording state.
C16_CaptureLifecycle ==
  /\ [](~isRecording => Recording = {})
  /\ [][(~isRecording /\ isRecording') => RecorderStarts]_vars
  /\ [][\A i \in Starts : StartFails(i) => (~isRecording' /\ Recording' = {})]_vars

\* C17: isLoading is true exactly while a request is in flight: it is set when
\* the request is issued, is not cleared while one is outstanding, and is
\* cleared by the step that settles the last one.
C17_LoadingTracksRequests == isLoading <=> requests # {}

====
